---- MODULE Spec2Model ----
(***************************************************************************)
(* Key-envelope protocol of resources/js/Cipher.mjs: generate(), export()  *)
(* and import() as a state machine, one call in flight at a time, every    *)
(* await point of a call a step of its own.                                *)
(*                                                                         *)
(* Password.mjs and Util/base16.mjs are collaborators of Cipher.mjs whose  *)
(* code is not part of the sources at hand; they are modelled from their   *)
(* documented interfaces.  The host's WebCrypto primitives are modelled    *)
(* symbolically: a key pair is an identifier, the private and the public   *)
(* handle of one pair carry the same identifier.                           *)
(***************************************************************************)
EXTENDS Integers, Sequences, FiniteSets, TLC

(***************************************************************************)
(* Bounds of the model.                                                    *)
(***************************************************************************)
MaxEnvelopes == 2
MaxRecords == 2

(***************************************************************************)
(* Program constants.                                                      *)
(***************************************************************************)
SaltLength == 16
NoPassword == 0

Passwords == { 1, 2 }

\* Key pairs: those the host generates here, and one generated elsewhere.
ForeignKeyId == MaxEnvelopes + 1
KeyIds == 1 .. ForeignKeyId

(***************************************************************************)
(* Util/base16: bytes <-> lowercase hexadecimal string.  A string is a     *)
(* sequence of one-character strings.                                      *)
(***************************************************************************)
HexDigits == << "0", "1", "2", "3", "4", "5", "6", "7",
                "8", "9", "a", "b", "c", "d", "e", "f" >>

HexChars == { HexDigits[i] : i \in 1 .. 16 }

HexValue == [ c \in HexChars |-> (CHOOSE i \in 1 .. 16 : HexDigits[i] = c) - 1 ]

DigitValue(c) == HexValue[c]

Base16Encode(bytes) ==
    [ i \in 1 .. 2 * Len(bytes) |->
        IF i % 2 = 1 THEN HexDigits[(bytes[(i + 1) \div 2] \div 16) + 1]
                     ELSE HexDigits[(bytes[i \div 2] % 16) + 1] ]

IsHex(str) == Len(str) % 2 = 0 /\ \A i \in 1 .. Len(str) : str[i] \in HexChars

\* decode(string): the bytes, or a failure on non-hex input or odd length.
Base16Decode(str) ==
    IF IsHex(str)
    THEN [ ok |-> TRUE,
           bytes |-> [ i \in 1 .. Len(str) \div 2 |->
                         16 * DigitValue(str[2 * i - 1]) + DigitValue(str[2 * i]) ] ]
    ELSE [ ok |-> FALSE, bytes |-> << >> ]

(***************************************************************************)
(* Host cryptography: key handles, RSA-OAEP, SPKI.                         *)
(***************************************************************************)
NoKey == [ kind |-> "none", id |-> 0 ]
PrivateKey(id) == [ kind |-> "private", id |-> id ]
PublicKey(id) == [ kind |-> "public", id |-> id ]

\* crypto.subtle.generateKey: the n-th pair generated is pair n.
GenerateKey(n) == [ privateKey |-> PrivateKey(n), publicKey |-> PublicKey(n) ]

Encrypt(publicKey, m) == [ to |-> publicKey.id, m |-> m ]
Decrypt(privateKey, c) == IF privateKey.kind = "private" /\ c.to = privateKey.id
                          THEN c.m ELSE "OperationError"

\* The private key decrypts what the public key encrypts.
Messages == { "m1", "m2" }

Matching(privateKey, publicKey) ==
    /\ privateKey.kind = "private"
    /\ publicKey.kind = "public"
    /\ \A m \in Messages : Decrypt(privateKey, Encrypt(publicKey, m)) = m

\* SPKI DER of a public key: a SEQUENCE tag and the key material.
SpkiTag == 48
ExportKey(publicKey) == << SpkiTag, publicKey.id >>

ImportKey(bytes) ==
    IF Len(bytes) = 2 /\ bytes[1] = SpkiTag /\ bytes[2] \in KeyIds
    THEN [ ok |-> TRUE, key |-> PublicKey(bytes[2]) ]
    ELSE [ ok |-> FALSE, key |-> NoKey ]

(***************************************************************************)
(* Password provider: key derivation from password and salt, authenticated *)
(* wrap with a fresh initialisation vector, unwrap that fails closed.      *)
(***************************************************************************)
RECURSIVE ByteSum(_)
ByteSum(bytes) == IF bytes = << >> THEN 0 ELSE bytes[1] + ByteSum(Tail(bytes))

Derive(password, salt) == (64 * password + 7 * Len(salt) + ByteSum(salt)) % 256

IVs == { 3, 5 }

Wrap(password, privateKey, salt, iv) ==
    LET dk == Derive(password, salt)
    IN  << iv, (dk + iv) % 256, (privateKey.id + dk + iv) % 256 >>

Unwrap(password, bytes, salt) ==
    LET dk == Derive(password, salt)
        id == (bytes[3] - dk - bytes[1]) % 256
    IN  IF Len(bytes) = 3 /\ bytes[2] = (dk + bytes[1]) % 256 /\ id \in KeyIds
        THEN [ ok |-> TRUE, key |-> PrivateKey(id) ]
        ELSE [ ok |-> FALSE, key |-> NoKey ]

(***************************************************************************)
(* Values of the protocol.                                                 *)
(***************************************************************************)
\* crypto.getRandomValues(new Uint8Array(16)): 16 random bytes, fresh at each
\* draw; the n-th draw here yields 16 bytes no other draw yields.
GetRandomValuesShort(n) == [ i \in 1 .. SaltLength - 1 |-> (17 * n) % 256 ]

GetRandomValues(n) == [ i \in 1 .. SaltLength |-> (17 * n) % 256 ]

NoEnvelope == [ privateKey |-> NoKey, publicKey |-> NoKey, salt |-> << >> ]
NoRecord == [ k |-> << >>, p |-> << >>, s |-> << >> ]
NoRet == [ status |-> "none", envelope |-> NoEnvelope, record |-> NoRecord ]

\* constructor({ privateKey, publicKey, salt })
CipherPrivateTwice(privateKey, publicKey, salt) ==
    [ privateKey |-> privateKey, publicKey |-> privateKey, salt |-> salt ]

Cipher(privateKey, publicKey, salt) ==
    [ privateKey |-> privateKey, publicKey |-> publicKey, salt |-> salt ]

\* `new this({...})`: the result is a new object, no existing one is touched.
ConstructInPlace(envs, e) ==
    IF envs = << >> THEN << e >> ELSE [ envs EXCEPT ![1] = e ]

Construct(envs, e) == Append(envs, e)

\* The record export() returns.
ExportRecordStaleSalt(wrappedPrivateKey, exportedPublicKey, salt) ==
    [ k |-> Base16Encode(wrappedPrivateKey),
      p |-> Base16Encode(exportedPublicKey),
      s |-> Base16Encode(Tail(salt)) ]

ExportRecordSwapped(wrappedPrivateKey, exportedPublicKey, salt) ==
    [ k |-> Base16Encode(exportedPublicKey),
      p |-> Base16Encode(wrappedPrivateKey),
      s |-> Base16Encode(salt) ]

ExportRecord(wrappedPrivateKey, exportedPublicKey, salt) ==
    [ k |-> Base16Encode(wrappedPrivateKey),
      p |-> Base16Encode(exportedPublicKey),
      s |-> Base16Encode(salt) ]

\* `password ??= await Password.recall()`
ResolveNoRecall(arg, amb) ==
    [ recall |-> FALSE, ok |-> TRUE, password |-> IF arg = NoPassword THEN 1 ELSE arg ]

Resolve(arg, amb) ==
    IF arg # NoPassword
    THEN [ recall |-> FALSE, ok |-> TRUE, password |-> arg ]
    ELSE [ recall |-> TRUE, ok |-> amb # NoPassword, password |-> amb ]

\* The three decodes of import(), s first, then p, then k.
DecodeRecordLazy(rec) ==
    LET s == Base16Decode(rec.s)
        p == Base16Decode(rec.p)
        k == Base16Decode(rec.k)
    IN  [ ok |-> TRUE,
          salt |-> s.bytes,
          exportedPublicKey |-> p.bytes,
          wrappedPrivateKey |-> k.bytes ]

DecodeRecordSkipsK(rec) ==
    LET s == Base16Decode(rec.s)
        p == Base16Decode(rec.p)
        k == Base16Decode(rec.k)
    IN  [ ok |-> s.ok /\ p.ok,
          salt |-> s.bytes,
          exportedPublicKey |-> p.bytes,
          wrappedPrivateKey |-> k.bytes ]

DecodeRecord(rec) ==
    LET s == Base16Decode(rec.s)
        p == Base16Decode(rec.p)
        k == Base16Decode(rec.k)
    IN  [ ok |-> s.ok /\ p.ok /\ k.ok,
          salt |-> s.bytes,
          exportedPublicKey |-> p.bytes,
          wrappedPrivateKey |-> k.bytes ]

\* Promise.all over two sub-operations: rejected as soon as one of them is,
\* with the reason of the first to fail; fulfilled once both are.
PromiseAllSettled(a, b, first) ==
    IF a \in { "ok", "fail" } /\ b \in { "ok", "fail" } THEN "fulfilled" ELSE "pending"

PromiseAll(a, b, first) ==
    IF first # "none" THEN "rejected"
    ELSE IF a = "ok" /\ b = "ok" THEN "fulfilled"
    ELSE "pending"

\* What a rejected sub-operation of a call rejects with.
Reason(op, which) ==
    CASE op = "generate" /\ which = "a" -> "generation"
      [] op = "generate" /\ which = "b" -> "generation"
      [] op = "export" /\ which = "a" -> "wrap"
      [] op = "export" /\ which = "b" -> "export-key"
      [] op = "import" /\ which = "a" -> "unwrap"
      [] op = "import" /\ which = "b" -> "key-import"

(***************************************************************************)
(* State.                                                                  *)
(***************************************************************************)
VARIABLES
    envelopes,   \* the Cipher objects constructed so far
    madeBy,      \* madeBy[i]: the operation that returned envelopes[i]
    records,     \* the records export() has returned, with their provenance
    call,        \* the call in flight
    ret          \* what the call in flight has settled with

vars == << envelopes, madeBy, records, call, ret >>

NoCall ==
    [ op |-> "idle", pc |-> "idle", arg |-> NoPassword, password |-> NoPassword,
      recalled |-> NoPassword, this |-> 0, rec |-> NoRecord,
      salt |-> << >>, exportedPublicKey |-> << >>, wrappedPrivateKey |-> << >>,
      privateKey |-> NoKey, publicKey |-> NoKey,
      a |-> "unissued", b |-> "unissued", first |-> "none", invoked |-> { } ]

Init ==
    /\ envelopes = << >>
    /\ madeBy = << >>
    /\ records = { }
    /\ call = NoCall
    /\ ret = NoRet

\* Number of key pairs the host has generated here.
Generated == Cardinality({ i \in 1 .. Len(madeBy) : madeBy[i] = "generate" })

Fail(status) == [ NoRet EXCEPT !.status = status ]

(***************************************************************************)
(* Records a caller can hand to import(): exported records, records made   *)
(* elsewhere (among them a key wrapped under a salt of another length),    *)
(* and any of these with one field replaced: by the field of another       *)
(* record, by a string that is no hexadecimal, by a payload that is no     *)
(* SPKI.                                                                   *)
(***************************************************************************)
NotHex == << "n", "o", "t", "-", "h", "e", "x" >>
OddHex == << "a", "b", "c" >>
NotSpki == << 0 >>
ShortSalt == << 9 >>

Exported == { r.rec : r \in records }

FieldsK == { r.k : r \in Exported } \cup { NotHex }
FieldsP == { r.p : r \in Exported }
              \cup { OddHex, Base16Encode(ExportKey(PublicKey(ForeignKeyId))) }
FieldsS == { r.s : r \in Exported } \cup { NotHex }

Crafted ==
    { [ k |-> Base16Encode(Wrap(1, PrivateKey(ForeignKeyId), ShortSalt, 3)),
        p |-> Base16Encode(ExportKey(PublicKey(ForeignKeyId))),
        s |-> Base16Encode(ShortSalt) ],
      [ k |-> Base16Encode(Wrap(1, PrivateKey(ForeignKeyId), ShortSalt, 3)),
        p |-> OddHex,
        s |-> NotHex ],
      [ k |-> Base16Encode(NotSpki),
        p |-> Base16Encode(NotSpki),
        s |-> Base16Encode(ShortSalt) ] }

ImportRecords ==
    Exported \cup Crafted
      \cup { [ r EXCEPT !.k = k ] : r \in Exported, k \in FieldsK }
      \cup { [ r EXCEPT !.p = p ] : r \in Exported, p \in FieldsP }
      \cup { [ r EXCEPT !.s = s ] : r \in Exported, s \in FieldsS }

(***************************************************************************)
(* Steps shared by the calls.                                              *)
(***************************************************************************)
\* The first sub-operation to reject is the one Promise.all rejects with.
FirstAfter(c, which, ok) == IF ok \/ c.first # "none" THEN c.first ELSE which

\* export() and import(): `password ??= await Password.recall()`.  What
\* recall() yields is the remembered password, or nothing (NoPassword).
ResolvePassword ==
    /\ call.pc = "resolve"
    /\ \E ambient \in Passwords \cup { NoPassword } :
       LET r == Resolve(call.arg, ambient)
           inv == IF r.recall THEN call.invoked \cup { "recall" } ELSE call.invoked
       IN  IF r.ok
           THEN /\ call' = [ call EXCEPT
                               !.pc = IF call.op = "export" THEN "issue" ELSE "decode",
                               !.password = r.password,
                               !.recalled = IF r.recall THEN r.password ELSE NoPassword,
                               !.invoked = inv ]
                /\ ret' = ret
           ELSE /\ call' = [ call EXCEPT !.pc = "done", !.invoked = inv ]
                /\ ret' = Fail("password-unavailable")
    /\ UNCHANGED << envelopes, madeBy, records >>

\* The caller takes the settled result; the next call may start.
Return ==
    /\ call.pc = "done"
    /\ call' = NoCall
    /\ ret' = NoRet
    /\ UNCHANGED << envelopes, madeBy, records >>

(***************************************************************************)
(* generate()                                                              *)
(***************************************************************************)
GenerateCall ==
    /\ call.pc = "idle"
    /\ Len(envelopes) < MaxEnvelopes
    /\ call' = [ NoCall EXCEPT !.op = "generate", !.pc = "issue" ]
    /\ ret' = NoRet
    /\ UNCHANGED << envelopes, madeBy, records >>

\* The array handed to Promise.all: the salt, a value already there, and the
\* promise of the key pair.
GenerateIssue ==
    /\ call.op = "generate"
    /\ call.pc = "issue"
    /\ call' = [ call EXCEPT !.pc = "join", !.salt = GetRandomValues(Generated + 1),
                             !.a = "ok", !.b = "pending",
                             !.invoked = { "getRandomValues", "generateKey" } ]
    /\ UNCHANGED << envelopes, madeBy, records, ret >>

\* crypto.subtle.generateKey settles; the host may reject.
GenerateKeyDone ==
    /\ call.op = "generate"
    /\ call.b = "pending"
    /\ \E ok \in BOOLEAN :
          call' = IF ok
                  THEN [ call EXCEPT
                           !.b = "ok",
                           !.privateKey = GenerateKey(Generated + 1).privateKey,
                           !.publicKey = GenerateKey(Generated + 1).publicKey ]
                  ELSE [ call EXCEPT !.b = "fail",
                                     !.first = FirstAfter(call, "b", FALSE) ]
    /\ UNCHANGED << envelopes, madeBy, records, ret >>

GenerateJoin ==
    /\ call.op = "generate"
    /\ call.pc = "join"
    /\ LET all == PromiseAll(call.a, call.b, call.first)
       IN  /\ all # "pending"
           /\ IF all = "rejected"
              THEN /\ ret' = Fail(Reason(call.op, call.first))
                   /\ UNCHANGED << envelopes, madeBy >>
              ELSE LET e == Cipher(call.privateKey, call.publicKey, call.salt)
                   IN  /\ envelopes' = Construct(envelopes, e)
                       /\ madeBy' = Append(madeBy, "generate")
                       /\ ret' = [ NoRet EXCEPT !.status = "ok", !.envelope = e ]
    /\ call' = [ call EXCEPT !.pc = "done" ]
    /\ UNCHANGED records

(***************************************************************************)
(* export(password = null)                                                 *)
(***************************************************************************)
ExportCall ==
    /\ call.pc = "idle"
    /\ Cardinality(records) < MaxRecords
    /\ \E i \in 1 .. Len(envelopes), pw \in Passwords \cup { NoPassword } :
          call' = [ NoCall EXCEPT !.op = "export", !.pc = "resolve",
                                  !.this = i, !.arg = pw ]
    /\ ret' = NoRet
    /\ UNCHANGED << envelopes, madeBy, records >>

\* password.wrap(...) and crypto.subtle.exportKey(...) are both started.
ExportIssue ==
    /\ call.op = "export"
    /\ call.pc = "issue"
    /\ call' = [ call EXCEPT !.pc = "await_k", !.a = "pending", !.b = "pending",
                             !.invoked = @ \cup { "wrap", "exportKey" } ]
    /\ UNCHANGED << envelopes, madeBy, records, ret >>

\* password.wrap settles, with an initialisation vector of its choice.
WrapDone ==
    /\ call.op = "export"
    /\ call.a = "pending"
    /\ \E ok \in BOOLEAN, iv \in IVs :
          call' = IF ok
                  THEN [ call EXCEPT
                           !.a = "ok",
                           !.wrappedPrivateKey =
                               Wrap(call.password, envelopes[call.this].privateKey,
                                    envelopes[call.this].salt, iv) ]
                  ELSE [ call EXCEPT !.a = "fail" ]
    /\ UNCHANGED << envelopes, madeBy, records, ret >>

\* crypto.subtle.exportKey('spki', this.publicKey) settles.
ExportKeyDone ==
    /\ call.op = "export"
    /\ call.b = "pending"
    /\ \E ok \in BOOLEAN :
          call' = IF ok
                  THEN [ call EXCEPT
                           !.b = "ok",
                           !.exportedPublicKey = ExportKey(envelopes[call.this].publicKey) ]
                  ELSE [ call EXCEPT !.b = "fail" ]
    /\ UNCHANGED << envelopes, madeBy, records, ret >>

\* `await wrappedPrivateKey`
ExportAwaitK ==
    /\ call.op = "export"
    /\ call.pc = "await_k"
    /\ call.a \in { "ok", "fail" }
    /\ IF call.a = "fail"
       THEN /\ call' = [ call EXCEPT !.pc = "done" ]
            /\ ret' = Fail(Reason(call.op, "a"))
       ELSE /\ call' = [ call EXCEPT !.pc = "await_p" ]
            /\ ret' = ret
    /\ UNCHANGED << envelopes, madeBy, records >>

\* `await exportedPublicKey`, then the salt is encoded and the record returned.
ExportAwaitP ==
    /\ call.op = "export"
    /\ call.pc = "await_p"
    /\ call.b \in { "ok", "fail" }
    /\ IF call.b = "fail"
       THEN /\ ret' = Fail(Reason(call.op, "b"))
            /\ records' = records
       ELSE LET r == ExportRecord(call.wrappedPrivateKey, call.exportedPublicKey,
                                  envelopes[call.this].salt)
            IN  /\ ret' = [ NoRet EXCEPT !.status = "ok", !.record = r ]
                /\ records' = records \cup { [ rec |-> r, from |-> call.this,
                                                 password |-> call.password ] }
    /\ call' = [ call EXCEPT !.pc = "done" ]
    /\ UNCHANGED << envelopes, madeBy >>

(***************************************************************************)
(* import({ k, p, s }, password = null)                                    *)
(***************************************************************************)
ImportCall ==
    /\ call.pc = "idle"
    /\ Len(envelopes) < MaxEnvelopes
    /\ \E rec \in ImportRecords, pw \in Passwords \cup { NoPassword } :
          call' = [ NoCall EXCEPT !.op = "import", !.pc = "resolve",
                                  !.rec = rec, !.arg = pw ]
    /\ ret' = NoRet
    /\ UNCHANGED << envelopes, madeBy, records >>

\* base16.decode of s, p and k; a throw rejects the call.
ImportDecode ==
    /\ call.op = "import"
    /\ call.pc = "decode"
    /\ LET d == DecodeRecord(call.rec)
       IN  IF d.ok
           THEN /\ call' = [ call EXCEPT !.pc = "issue",
                                         !.salt = d.salt,
                                         !.exportedPublicKey = d.exportedPublicKey,
                                         !.wrappedPrivateKey = d.wrappedPrivateKey,
                                         !.invoked = @ \cup { "decode" } ]
                /\ ret' = ret
           ELSE /\ call' = [ call EXCEPT !.pc = "done",
                                         !.invoked = @ \cup { "decode" } ]
                /\ ret' = Fail("decode")
    /\ UNCHANGED << envelopes, madeBy, records >>

\* password.unwrap(...) and crypto.subtle.importKey(...) are both started.
ImportIssue ==
    /\ call.op = "import"
    /\ call.pc = "issue"
    /\ call' = [ call EXCEPT !.pc = "join", !.a = "pending", !.b = "pending",
                             !.invoked = @ \cup { "unwrap", "importKey" } ]
    /\ UNCHANGED << envelopes, madeBy, records, ret >>

\* password.unwrap settles.
UnwrapDone ==
    /\ call.op = "import"
    /\ call.a = "pending"
    /\ LET u == Unwrap(call.password, call.wrappedPrivateKey, call.salt)
       IN  call' = [ call EXCEPT !.a = IF u.ok THEN "ok" ELSE "fail",
                                 !.privateKey = u.key,
                                 !.first = FirstAfter(call, "a", u.ok) ]
    /\ UNCHANGED << envelopes, madeBy, records, ret >>

\* crypto.subtle.importKey('spki', ...) settles.
ImportKeyDone ==
    /\ call.op = "import"
    /\ call.b = "pending"
    /\ LET i == ImportKey(call.exportedPublicKey)
       IN  call' = [ call EXCEPT !.b = IF i.ok THEN "ok" ELSE "fail",
                                 !.publicKey = i.key,
                                 !.first = FirstAfter(call, "b", i.ok) ]
    /\ UNCHANGED << envelopes, madeBy, records, ret >>

ImportJoin ==
    /\ call.op = "import"
    /\ call.pc = "join"
    /\ LET all == PromiseAll(call.a, call.b, call.first)
       IN  /\ all # "pending"
           /\ IF all = "rejected"
              THEN /\ ret' = Fail(Reason(call.op, call.first))
                   /\ UNCHANGED << envelopes, madeBy >>
              ELSE LET e == Cipher(call.privateKey, call.publicKey, call.salt)
                   IN  /\ envelopes' = Construct(envelopes, e)
                       /\ madeBy' = Append(madeBy, "import")
                       /\ ret' = [ NoRet EXCEPT !.status = "ok", !.envelope = e ]
    /\ call' = [ call EXCEPT !.pc = "done" ]
    /\ UNCHANGED records

Next ==
    \/ ResolvePassword
    \/ Return
    \/ GenerateCall
    \/ GenerateIssue
    \/ GenerateKeyDone
    \/ GenerateJoin
    \/ ExportCall
    \/ ExportIssue
    \/ WrapDone
    \/ ExportKeyDone
    \/ ExportAwaitK
    \/ ExportAwaitP
    \/ ImportCall
    \/ ImportDecode
    \/ ImportIssue
    \/ UnwrapDone
    \/ ImportKeyDone
    \/ ImportJoin

Spec == Init /\ [][Next]_vars

(***************************************************************************)
(* Properties.                                                             *)
(***************************************************************************)
Done(op) == call.op = op /\ call.pc = "done"

AllHex(rec) == IsHex(rec.k) /\ IsHex(rec.p) /\ IsHex(rec.s)

CryptoCalls == { "wrap", "unwrap", "exportKey", "importKey" }

\* C1 - Round trip: importing, under the password it was exported with, any
\* record exported from an envelope generate() returned succeeds, and the
\* envelope it yields has the same SPKI bytes for its public key and a private
\* key that decrypts whatever the original public key encrypts.  This holds
\* for every record the envelope exported, whatever the wrap's randomness.
RoundTrip ==
    \A r \in records :
        ( /\ Done("import")
          /\ call.rec = r.rec
          /\ call.password = r.password
          /\ madeBy[r.from] = "generate" )
        => /\ ret.status = "ok"
           /\ ExportKey(ret.envelope.publicKey) = ExportKey(envelopes[r.from].publicKey)
           /\ \A m \in Messages :
                 Decrypt(ret.envelope.privateKey,
                         Encrypt(envelopes[r.from].publicKey, m)) = m

\* Two different exports of one generated envelope under one password exist,
\* and one of them has been imported back under that password.
RoundTripWitness ==
    \E r1, r2 \in records :
        /\ r1 # r2
        /\ r1.from = r2.from
        /\ r1.password = r2.password
        /\ madeBy[r1.from] = "generate"
        /\ Done("import")
        /\ call.rec = r1.rec
        /\ call.password = r1.password
        /\ ret.status = "ok"

\* C2 - Wrong password fails closed: importing a record exported from a
\* generated envelope under another password than the one it was exported
\* with fails with the unwrap failure and returns no envelope.
WrongPasswordFailsClosed ==
    \A r \in records :
        ( /\ Done("import")
          /\ call.rec = r.rec
          /\ call.password # NoPassword
          /\ call.password # r.password
          /\ madeBy[r.from] = "generate" )
        => /\ ret.status = "unwrap"
           /\ ret.envelope = NoEnvelope

WrongPasswordWitness ==
    \E r \in records :
        /\ Done("import")
        /\ call.rec = r.rec
        /\ call.arg # NoPassword
        /\ call.arg # r.password
        /\ madeBy[r.from] = "generate"
        /\ call.a = "fail"
        /\ call.b = "ok"
        /\ ret.status = "unwrap"

\* C3 - Malformed record: import() of a record with a field that is no valid
\* hexadecimal, called with a password, fails with the decode failure (not the
\* unwrap failure, not the public-key-import failure) and returns no envelope.
MalformedRecordFailsDecode ==
    ( /\ Done("import")
      /\ call.arg # NoPassword
      /\ ~ AllHex(call.rec) )
    => /\ ret.status = "decode"
       /\ ret.envelope = NoEnvelope

\* Only k is malformed: p and s are those of an exported record.
MalformedRecordWitness ==
    \E r \in records :
        /\ Done("import")
        /\ call.arg # NoPassword
        /\ call.rec = [ r.rec EXCEPT !.k = NotHex ]
        /\ ret.status = "decode"

\* C4 - Salt stability: the s field of every exported record decodes to the
\* salt of the envelope that exported it, byte for byte, and the envelope
\* import() returns holds the decoded bytes of the record's s as its salt.
SaltStability ==
    /\ ( Done("export") /\ ret.status = "ok" )
          => /\ Base16Decode(ret.record.s).ok
             /\ Base16Decode(ret.record.s).bytes = envelopes[call.this].salt
    /\ ( Done("import") /\ ret.status = "ok" )
          => ret.envelope.salt = Base16Decode(call.rec.s).bytes

\* An envelope that import() returned has exported a record.
SaltStabilityWitness ==
    /\ Done("export")
    /\ ret.status = "ok"
    /\ madeBy[call.this] = "import"
    /\ \E r \in records : r.rec = ret.record /\ r.from = call.this

\* C5 - Password resolution: called without a password, export() and import()
\* use the password recall() yields; when recall() yields none the call fails
\* with the recall failure, returns nothing, and has invoked neither wrap nor
\* unwrap nor the SPKI export nor the SPKI import.
PasswordResolution ==
    ( call.op \in { "export", "import" } /\ call.arg = NoPassword /\ call.pc # "resolve" )
    => /\ "recall" \in call.invoked
       /\ call.password = call.recalled
       /\ call.recalled = NoPassword
             => /\ call.pc = "done"
                /\ ret = Fail("password-unavailable")
                /\ call.invoked \cap CryptoCalls = { }
       /\ ( Done("export") /\ ret.status = "ok" )
             => Unwrap(call.recalled, Base16Decode(ret.record.k).bytes,
                       envelopes[call.this].salt).ok

PasswordResolutionWitness ==
    /\ Done("export")
    /\ call.arg = NoPassword
    /\ call.recalled = NoPassword
    /\ ret.status = "password-unavailable"

\* C6 - No partial success: a call returns an envelope or a record only when
\* both of its sub-operations have succeeded; when either has failed, in
\* whatever order they settled, the call fails and returns nothing, and what
\* is returned has every field filled.
NoPartialSuccess ==
    /\ ret.status = "ok" => call.a = "ok" /\ call.b = "ok"
    /\ ( call.pc = "done" /\ ( call.a = "fail" \/ call.b = "fail" ) )
          => ret.status \notin { "ok", "none" }
    /\ ret.status # "ok" => ret.envelope = NoEnvelope /\ ret.record = NoRecord
    /\ ( ret.status = "ok" /\ call.op \in { "generate", "import" } )
          => /\ ret.envelope.privateKey.kind = "private"
             /\ ret.envelope.publicKey.kind = "public"
             /\ ret.envelope.salt = call.salt
             /\ ret.record = NoRecord
    /\ ( ret.status = "ok" /\ call.op = "export" )
          => /\ ret.record.k = Base16Encode(call.wrappedPrivateKey)
             /\ ret.record.p = Base16Encode(call.exportedPublicKey)
             /\ call.wrappedPrivateKey # << >>
             /\ call.exportedPublicKey # << >>
             /\ ret.envelope = NoEnvelope

\* import(): both sub-operations failed, the public-key import first.
NoPartialSuccessWitness ==
    /\ Done("import")
    /\ call.a = "fail"
    /\ call.b = "fail"
    /\ call.first = "b"
    /\ ret.status = "key-import"

\* C7, as stated - every envelope generate() or import() has returned holds a
\* matching pair, whatever record import() was given.
MatchingPairAnyRecord ==
    \A i \in 1 .. Len(envelopes) :
        Matching(envelopes[i].privateKey, envelopes[i].publicKey)

\* C7, amended - every envelope generate() returned holds a matching pair, and
\* so does every envelope import() returns for a record whose k and p are
\* those of one record exported from an envelope holding a matching pair.
\* import() returns the private key wrapped in k and the public key encoded in
\* p without checking one against the other.
MatchingPair ==
    /\ \A i \in 1 .. Len(envelopes) :
          madeBy[i] = "generate"
             => Matching(envelopes[i].privateKey, envelopes[i].publicKey)
    /\ \A r \in records :
          ( /\ Done("import")
            /\ ret.status = "ok"
            /\ call.rec.k = r.rec.k
            /\ call.rec.p = r.rec.p
            /\ Matching(envelopes[r.from].privateKey, envelopes[r.from].publicKey) )
          => Matching(ret.envelope.privateKey, ret.envelope.publicKey)

MatchingPairWitness ==
    \E r \in records :
        /\ Done("import")
        /\ ret.status = "ok"
        /\ call.rec = r.rec
        /\ Matching(envelopes[r.from].privateKey, envelopes[r.from].publicKey)
        /\ envelopes[Len(envelopes)] = ret.envelope
        /\ madeBy[Len(envelopes)] = "import"

\* C8, as stated - the salt of every envelope generate() or import() has
\* returned is exactly 16 bytes.
SaltLengthAnyRecord ==
    \A i \in 1 .. Len(envelopes) : Len(envelopes[i].salt) = SaltLength

\* C8, amended - the salt of every envelope generate() returned is exactly 16
\* bytes; the salt of an envelope import() returns has the length the record's
\* s encodes, which import() does not check; the s of a record exported from
\* an envelope with a 16-byte salt encodes exactly 16 bytes.
SaltLengthInvariant ==
    /\ \A i \in 1 .. Len(envelopes) :
          madeBy[i] = "generate" => Len(envelopes[i].salt) = SaltLength
    /\ ( Done("import") /\ ret.status = "ok" )
          => 2 * Len(ret.envelope.salt) = Len(call.rec.s)
    /\ ( Done("export") /\ ret.status = "ok"
            /\ Len(envelopes[call.this].salt) = SaltLength )
          => Len(Base16Decode(ret.record.s).bytes) = SaltLength

SaltLengthWitness ==
    /\ Done("import")
    /\ ret.status = "ok"
    /\ Len(call.rec.s) = 2 * SaltLength
    /\ Len(ret.envelope.salt) = SaltLength
    /\ madeBy[1] = "generate"

\* C9 - Envelope immutability: no step changes the fields of an envelope
\* that exists; export() leaves the envelopes as they are whether it succeeds
\* or fails; generate() and import() return a new envelope.
EnvelopeStep ==
    /\ Len(envelopes') >= Len(envelopes)
    /\ \A i \in 1 .. Len(envelopes) : envelopes'[i] = envelopes[i]
    /\ call.op = "export" => envelopes' = envelopes
    /\ ( call.op \in { "generate", "import" } /\ ret.status # "ok" /\ ret'.status = "ok" )
          => envelopes' = Append(envelopes, ret'.envelope)

EnvelopeImmutable == [][EnvelopeStep]_vars

\* export() has failed on an envelope that import() returned.
EnvelopeImmutableWitness ==
    /\ Done("export")
    /\ ret.status \in { "wrap", "export-key" }
    /\ Len(envelopes) = 2
    /\ madeBy[2] = "import"
    /\ call.this = 2

\* C10 - Ordering of import(): the password is resolved first, the three
\* fields are decoded next, and unwrap and the SPKI import start only when
\* all three decodes succeeded.  On a record with a non-hex field neither is
\* invoked; when the password is omitted and recall yields none, import()
\* fails with the password-unavailable failure without decoding anything,
\* malformed record or not.
ImportOrdering ==
    call.op = "import"
    => /\ "decode" \in call.invoked => call.password # NoPassword
       /\ call.invoked \cap CryptoCalls # { }
             => "decode" \in call.invoked /\ AllHex(call.rec)
       /\ ( call.arg = NoPassword /\ call.recalled = NoPassword /\ call.pc # "resolve" )
             => /\ ret.status = "password-unavailable"
                /\ "decode" \notin call.invoked

ImportOrderingWitness ==
    /\ Done("import")
    /\ call.arg = NoPassword
    /\ call.recalled = NoPassword
    /\ ~ AllHex(call.rec)
    /\ ret.status = "password-unavailable"

====
